---------------------------- MODULE Spec2Model ----------------------------
(***************************************************************************)
(* A model of the merchantCache entity-resolution code:                    *)
(*   - internal/abr/client.go : getAllResults (candidate extraction),      *)
(*     findBestResult (ranking), Lookup (two-stage search / re-verify),    *)
(*     GetAllResults (search + extraction used by the HTTP server);        *)
(*   - internal/server/server.go : handleMerchantAPI and its result cache; *)
(*   - brandfetch/main.go : enrich, the loop over the pending transactions.*)
(*                                                                         *)
(* Go strings are modelled as sequences of one-character strings, so that  *)
(* trimming, case folding, splitting into fields and substring search are  *)
(* computed character by character as the Go library does.                 *)
(***************************************************************************)
EXTENDS Integers, Sequences, FiniteSets, TLC

VARIABLES
    \* ---- getAllResults (extraction) ----
    exPc,        \* "idle" | "decoded"
    exXml,       \* the response body handed to getAllResults
    exOut,       \* the []Result it returned
    \* ---- findBestResult (ranking) ----
    rkPc,        \* "idle" | "armed" | "called" | "recalled"
    rkName,      \* businessName argument
    rkResults,   \* results argument
    rkOut,       \* the Results returned by the calls made so far on this input
    rkScored,    \* the scoredResults slices those calls built
    \* ---- Client.Lookup ----
    lkPc,        \* "idle" | "stage1" | "ranked" | "stage2" | "done"
    lkName,      \* businessName argument
    lkQueries,   \* search terms sent to the registry so far, in order
    lkResp1,     \* what searchByName returned in stage 1
    lkAll,       \* allResults as Lookup holds it once findBestResult has returned
    lkBest,      \* bestResult after stage 1 (findBestResult)
    lkResp2,     \* what searchByName returned in stage 2
    lkRet,       \* the four values Lookup returned
    \* ---- Server.handleMerchantAPI, one goroutine per request ----
    svCache,     \* s.cache: merchant name -> MerchantResult
    svMutex,     \* s.cacheMutex: the writer holding it and the readers holding it
    svPc,        \* per handler: where it is in handleMerchantAPI
    svName,      \* per handler: merchantName
    svResult,    \* per handler: the local `result`
    svResp,      \* per handler: the response written to w
    svAbrCalls,  \* per merchant name: GetAllResults calls started so far
    svGoogleCalls, \* per merchant name: ExtractMerchantInfo calls started so far
    \* ---- brandfetch enrich ----
    bfPc,        \* "idle" | "search" | "upsert" | "mark" | "returned"
    bfRows,      \* the rows argument: the pending RawTransactions
    bfIdx,       \* position in rows of the transaction of the current iteration
    bfFound,     \* searchHit != nil || profile != nil in the current iteration
    bfEnriched,  \* table enriched_merchants: transaction_cache -> brand_name
    bfProcessed, \* ids of the raw_transactions rows with processed = true
    bfCounts,    \* the locals matches and misses
    bfErr,       \* the error enrich returned
    bfLog        \* the statements this enrich call has sent to the database

exVars == <<exPc, exXml, exOut>>
rkVars == <<rkPc, rkName, rkResults, rkOut, rkScored>>
lkVars == <<lkPc, lkName, lkQueries, lkResp1, lkAll, lkBest, lkResp2, lkRet>>
svVars == <<svCache, svMutex, svPc, svName, svResult, svResp, svAbrCalls, svGoogleCalls>>
bfVars == <<bfPc, bfRows, bfIdx, bfFound, bfEnriched, bfProcessed, bfCounts, bfErr, bfLog>>
vars == <<exVars, rkVars, lkVars, svVars, bfVars>>

-----------------------------------------------------------------------------
(* Go strings and the strings-package functions the code calls.            *)

Upper == <<"A","B","C","D","E","F","G","H","I","J","K","L","M",
           "N","O","P","Q","R","S","T","U","V","W","X","Y","Z">>
Lower == <<"a","b","c","d","e","f","g","h","i","j","k","l","m",
           "n","o","p","q","r","s","t","u","v","w","x","y","z">>
Digits == {"0","1","2","3","4","5","6","7","8","9"}

\* unicode.IsSpace on the characters the model uses
IsSpace(c) == c \in {" ", "\t", "\n", "\r"}

SetMin(S) == CHOOSE x \in S : \A y \in S : x <= y
SetMax(S) == CHOOSE x \in S : \A y \in S : x >= y

\* unicode.ToLower of one character
LowerOf == [c \in {Upper[i] : i \in 1..26} |-> Lower[CHOOSE i \in 1..26 : Upper[i] = c]]
LowerChar(c) == IF c \in DOMAIN LowerOf THEN LowerOf[c] ELSE c

\* strings.ToLower
ToLower(s) == [i \in 1..Len(s) |-> LowerChar(s[i])]

\* strings.TrimSpace: drop leading and trailing white space
TrimSpace(s) ==
    IF \A i \in 1..Len(s) : IsSpace(s[i]) THEN <<>>
    ELSE LET first == CHOOSE i \in 1..Len(s) :
                          ~IsSpace(s[i]) /\ \A j \in 1..(i - 1) : IsSpace(s[j])
             last == CHOOSE i \in 1..Len(s) :
                         ~IsSpace(s[i]) /\ \A j \in (i + 1)..Len(s) : IsSpace(s[j])
         IN  IF first = 1 /\ last = Len(s) THEN s ELSE SubSeq(s, first, last)

\* strings.Contains: substr occurs in s (the empty string occurs everywhere)
Contains(s, substr) ==
    \E i \in 1..(Len(s) - Len(substr) + 1) :
        \A j \in 1..Len(substr) : s[i + j - 1] = substr[j]

\* strings.Fields: the maximal runs of non-space characters, left to right
RECURSIVE FieldsFrom(_, _)
FieldsFrom(s, i) ==
    IF i > Len(s) THEN <<>>
    ELSE IF IsSpace(s[i]) THEN FieldsFrom(s, i + 1)
    ELSE LET e == CHOOSE j \in i..Len(s) :
                      /\ j = Len(s) \/ IsSpace(s[j + 1])
                      /\ \A k \in i..(j - 1) : ~IsSpace(s[k + 1])
         IN  <<SubSeq(s, i, e)>> \o FieldsFrom(s, e + 1)

Fields(s) == FieldsFrom(s, 1)


-----------------------------------------------------------------------------
(* String literals used by the code and by the modelled registry data.     *)

Cat2(a, b) == a \o <<" ">> \o b
Cat3(a, b, c) == a \o <<" ">> \o b \o <<" ">> \o c
Pad(s) == <<" ">> \o s \o <<"\n">>
ToUpper(s) ==
    [i \in 1..Len(s) |->
        IF \E k \in 1..26 : Lower[k] = s[i]
        THEN Upper[CHOOSE k \in 1..26 : Lower[k] = s[i]]
        ELSE s[i]]

StrActive == <<"A","c","t","i","v","e">>
StrCancelled == <<"C","a","n","c","e","l","l","e","d">>
StrNSW == <<"N","S","W">>
StrVIC == <<"V","I","C">>

Abn1 == <<"5","0","1","6","9","2","6","0","1","4","4">>
Abn2 == <<"1","2","3","4","5","6","7","8","9","0","1">>
Abn3 == <<"9","8","7","6","5","4","3","2","1","0","9">>

WApple == <<"A","p","p","l","e">>
WPty == <<"P","t","y">>
WLtd == <<"L","t","d">>
WMain == <<"M","a","i","n">>
WTrading == <<"T","r","a","d","i","n","g">>
Score95 == <<"9","5">>
Score80 == <<"8","0">>
Score60 == <<"6","0">>

-----------------------------------------------------------------------------
(* encoding/xml and Client.getAllResults.                                  *)
(* A response body is the empty string, a text xml.Unmarshal rejects, a    *)
(* document holding a list of searchResultsRecord elements, or such a      *)
(* document cut short: xml.Unmarshal has then filled response.Records with *)
(* the records it read before it returns its syntax error.                 *)

EmptyBody == [kind |-> "empty"]
GarbageBody == [kind |-> "garbage"]
DocBody(recs) == [kind |-> "doc", records |-> recs]
TruncatedBody(recs) == [kind |-> "truncated", records |-> recs]

\* SearchResultsRecord, one field per XML leaf the struct declares
Rec(id, status, st, bn, bs, mn, tn, ts) ==
    [idValue |-> id, idStatus |-> status, stateCode |-> st,
     bnName |-> bn, bnScore |-> bs, mnName |-> mn, mtName |-> tn, mtScore |-> ts]

\* the zero Result and the Result literal
MkResult(abn, st, name, score) ==
    [ABN |-> abn, State |-> st, LegalName |-> name, Score |-> score]
ZeroResult == MkResult(<<>>, <<>>, <<>>, <<>>)

\* a regular expression that lacks the anchors: eleven digits anywhere
abnRegexUnanchored(s) ==
    \E i \in 1..(Len(s) - 10) : \A j \in i..(i + 10) : s[j] \in Digits

\* regexp ^\d{11}$ : exactly eleven ASCII digits and nothing else
abnRegexMatch(s) == Len(s) = 11 /\ \A i \in 1..11 : s[i] \in Digits

\* a filter that tests the status only
recordPassesStatusOnly(rec) == TrimSpace(rec.idStatus) = StrActive

\* the filter of the loop body: the record is kept (not `continue`d)
recordPasses(rec) ==
    LET abn == TrimSpace(rec.idValue)
        status == TrimSpace(rec.idStatus)
    IN  ~(~abnRegexMatch(abn) \/ status # StrActive)

\* a Result whose legal name prefers the main name to the business name
recordToResultMainFirst(rec) ==
    LET abn == TrimSpace(rec.idValue)
        state == TrimSpace(rec.stateCode)
        legal0 == TrimSpace(rec.mnName)
        legal1 == IF legal0 = <<>> THEN TrimSpace(rec.bnName) ELSE legal0
        legal2 == IF legal1 = <<>> THEN TrimSpace(rec.mtName) ELSE legal1
        score0 == TrimSpace(rec.bnScore)
        score1 == IF score0 = <<>> THEN TrimSpace(rec.mtScore) ELSE score0
    IN  MkResult(abn, state, legal2, score1)

\* a Result whose score is the trading-name score whenever the legal name is
\* the trading name
recordToResultScoreFollowsName(rec) ==
    LET abn == TrimSpace(rec.idValue)
        state == TrimSpace(rec.stateCode)
        legal0 == TrimSpace(rec.bnName)
        legal1 == IF legal0 = <<>> THEN TrimSpace(rec.mnName) ELSE legal0
        legal2 == IF legal1 = <<>> THEN TrimSpace(rec.mtName) ELSE legal1
        score0 == IF legal1 = <<>> THEN <<>> ELSE TrimSpace(rec.bnScore)
        score1 == IF score0 = <<>> THEN TrimSpace(rec.mtScore) ELSE score0
    IN  MkResult(abn, state, legal2, score1)

\* the Result the loop body appends for a record that passes the filter
recordToResult(rec) ==
    LET abn == TrimSpace(rec.idValue)
        state == TrimSpace(rec.stateCode)
        legal0 == TrimSpace(rec.bnName)
        legal1 == IF legal0 = <<>> THEN TrimSpace(rec.mnName) ELSE legal0
        legal2 == IF legal1 = <<>> THEN TrimSpace(rec.mtName) ELSE legal1
        score0 == TrimSpace(rec.bnScore)
        score1 == IF score0 = <<>> THEN TrimSpace(rec.mtScore) ELSE score0
    IN  MkResult(abn, state, legal2, score1)

\* a loop that puts each new Result in front of the ones collected so far
RECURSIVE extractLoopPrepend(_, _, _)
extractLoopPrepend(recs, i, results) ==
    IF i > Len(recs) THEN results
    ELSE IF recordPasses(recs[i])
         THEN extractLoopPrepend(recs, i + 1, <<recordToResult(recs[i])>> \o results)
         ELSE extractLoopPrepend(recs, i + 1, results)

\* the for-range loop over response.Records, appending in order
RECURSIVE extractLoop(_, _, _)
extractLoop(recs, i, results) ==
    IF i > Len(recs) THEN results
    ELSE IF recordPasses(recs[i])
         THEN extractLoop(recs, i + 1, Append(results, recordToResult(recs[i])))
         ELSE extractLoop(recs, i + 1, results)

\* a getAllResults that goes on with what xml.Unmarshal decoded before its error
getAllResultsIgnoreErr(xmlText) ==
    IF xmlText.kind = "empty" THEN <<>>
    ELSE IF xmlText.kind = "garbage" THEN <<>>
    ELSE extractLoop(xmlText.records, 1, <<>>)

\* Client.getAllResults: nil for an empty body and when xml.Unmarshal fails
getAllResults(xmlText) ==
    IF xmlText.kind = "empty" THEN <<>>
    ELSE IF xmlText.kind \in {"garbage", "truncated"} THEN <<>>
    ELSE extractLoop(xmlText.records, 1, <<>>)

-----------------------------------------------------------------------------
(* Bounded registry data for exercising getAllResults.                     *)

MaxRecs == 2

ExIds == {Abn1, Pad(Abn2), SubSeq(Abn1, 1, 10), Abn1 \o <<"7">>,
          <<"5","0","1","6","9","x","6","0","1","4","4">>}
ExStatuses == {StrActive, Pad(StrActive), StrCancelled, ToLower(StrActive)}
ExBnNames == {<<>>, Cat3(WApple, WPty, WLtd)}
ExMnNames == {<<>>, Cat2(WApple, WMain)}
ExTnNames == {<<>>, Pad(Cat2(WApple, WTrading))}
ExBnScores == {<<>>, Score95}
ExTnScores == {<<>>, Pad(Score80)}

ExRecords ==
    {Rec(id, st, StrNSW, Cat3(WApple, WPty, WLtd), Score95, <<>>, <<>>, <<>>) :
        id \in ExIds, st \in ExStatuses}
    \cup
    {Rec(Abn3, StrActive, Pad(StrVIC), n[1], s[1], n[2], n[3], s[2]) :
        n \in ExBnNames \X ExMnNames \X ExTnNames, s \in ExBnScores \X ExTnScores}
    \cup
    {Rec(Abn3, StrActive, <<>>, <<" ">>, <<" ">>, <<>>, Cat2(WApple, WTrading), Score80)}

SeqsUpTo(S, n) == UNION {[1..k -> S] : k \in 0..n}

ExBodies ==
    {EmptyBody, GarbageBody,
     TruncatedBody(<<Rec(Abn1, StrActive, StrNSW, Cat3(WApple, WPty, WLtd), Score95, <<>>, <<>>, <<>>)>>)}
    \cup {DocBody(r) : r \in SeqsUpTo(ExRecords, MaxRecs)}

ExInit == exPc = "idle" /\ exXml = EmptyBody /\ exOut = <<>>

\* a response body arrives and getAllResults decodes and filters it
ExDecode ==
    /\ exPc = "idle"
    /\ \E body \in ExBodies :
          /\ exXml' = body
          /\ exOut' = getAllResults(body)
    /\ exPc' = "decoded"

\* the caller drops the result; the next body can be processed
ExReset ==
    /\ exPc = "decoded"
    /\ exPc' = "idle" /\ exXml' = EmptyBody /\ exOut' = <<>>

-----------------------------------------------------------------------------
(* Client.findBestResult.                                                  *)
(* A Go map[string]bool used as a set is modelled as a set; the order in   *)
(* which `for key := range a` visits the keys is unspecified, so it is an  *)
(* extra argument (a sequence enumerating a) chosen freely at every call.  *)

Perms(S) == {f \in [1..Cardinality(S) -> S] : \A i, j \in DOMAIN f : f[i] = f[j] => i = j}

\* stringToSet: the set of the strings of a slice
stringToSet(strs) == {strs[i] : i \in DOMAIN strs}

\* an intersection that stops at the first key of a that b lacks
RECURSIVE intersectionBreak(_, _, _)
intersectionBreak(a, b, ord) ==
    IF ord = <<>> THEN {}
    ELSE IF Head(ord) \in b
         THEN {Head(ord)} \cup intersectionBreak(a, b, Tail(ord))
         ELSE {}

\* intersection: ranges over a (in the order ord) and keeps the keys b holds
RECURSIVE intersection(_, _, _)
intersection(a, b, ord) ==
    IF ord = <<>> THEN {}
    ELSE IF Head(ord) \in b
         THEN {Head(ord)} \cup intersection(a, b, Tail(ord))
         ELSE intersection(a, b, Tail(ord))

companyKeywords ==
    << <<"p","t","y">>, <<"l","i","m","i","t","e","d">>, <<"l","t","d">>,
       <<"i","n","c">>, <<"c","o","r","p","o","r","a","t","i","o","n">>,
       <<"c","o","r","p">>, <<"g","r","o","u","p">>,
       <<"h","o","l","d","i","n","g">> >>

unrelatedKeywords ==
    << <<"c","l","e","a","n","i","n","g">>, <<"f","r","e","i","g","h","t">>,
       <<"t","o","n","e","r","s">>, <<"c","a","n","d","l","e","s">>,
       <<"m","u","s","i","c">>, <<"a","d","s">>,
       <<"d","o","g","w","a","s","h">> >>

\* the loop setting isCompany
isCompany(nameLower) ==
    \E k \in DOMAIN companyKeywords : Contains(nameLower, companyKeywords[k])

\* the loop setting hasUnrelated
hasUnrelated(nameLower) ==
    \E k \in DOMAIN unrelatedKeywords : Contains(nameLower, unrelatedKeywords[k])

DigitVal(c) ==
    CASE c = "0" -> 0 [] c = "1" -> 1 [] c = "2" -> 2 [] c = "3" -> 3
      [] c = "4" -> 4 [] c = "5" -> 5 [] c = "6" -> 6 [] c = "7" -> 7
      [] c = "8" -> 8 [] c = "9" -> 9

RECURSIVE DecimalValue(_)
DecimalValue(ds) ==
    IF ds = <<>> THEN 0
    ELSE 10 * DecimalValue(SubSeq(ds, 1, Len(ds) - 1)) + DigitVal(ds[Len(ds)])

DefaultScore == 50

\* scoreValue := 50.0; fmt.Sscanf(result.Score, "%f", &scoreValue):
\* leading space is skipped, the longest numeric prefix is converted and what
\* follows it is ignored; with no numeric prefix the scan fails and scoreValue
\* keeps 50.  (The modelled scores carry no sign, fraction or exponent.)
scoreValue(score) ==
    LET body == IF \E i \in DOMAIN score : ~IsSpace(score[i])
                THEN SubSeq(score, SetMin({i \in DOMAIN score : ~IsSpace(score[i])}), Len(score))
                ELSE <<>>
        stop == {i \in DOMAIN body : body[i] \notin Digits}
        n == IF stop = {} THEN Len(body) ELSE SetMin(stop) - 1
    IN  IF n = 0 THEN DefaultScore ELSE DecimalValue(SubSeq(body, 1, n))

ExactBonus == 1000
ContainsBonus == 500
WordWeight == 100

\* gates without the company-keyword test
passesGatesNoEntityGate(searchWords, result, ord) ==
    LET nameLower == ToLower(result.LegalName)
        resultWords == stringToSet(Fields(nameLower))
        commonWords == intersection(searchWords, resultWords, ord)
    IN  /\ Cardinality(commonWords) # 0
        /\ ~(hasUnrelated(nameLower) /\ Cardinality(commonWords) < 2)

\* gates without the common-words test
passesGatesNoOverlapGate(searchWords, result, ord) ==
    LET nameLower == ToLower(result.LegalName)
        resultWords == stringToSet(Fields(nameLower))
        commonWords == intersection(searchWords, resultWords, ord)
    IN  /\ isCompany(nameLower)
        /\ ~(hasUnrelated(nameLower) /\ Cardinality(commonWords) < 1)

\* gates that drop every name with an unrelated keyword
passesGatesNoiseAlways(searchWords, result, ord) ==
    LET nameLower == ToLower(result.LegalName)
        resultWords == stringToSet(Fields(nameLower))
        commonWords == intersection(searchWords, resultWords, ord)
    IN  /\ isCompany(nameLower)
        /\ Cardinality(commonWords) # 0
        /\ ~hasUnrelated(nameLower)

\* gates whose noise test asks for more than two shared words
passesGatesNoiseStrict(searchWords, result, ord) ==
    LET nameLower == ToLower(result.LegalName)
        resultWords == stringToSet(Fields(nameLower))
        commonWords == intersection(searchWords, resultWords, ord)
    IN  /\ isCompany(nameLower)
        /\ Cardinality(commonWords) # 0
        /\ ~(hasUnrelated(nameLower) /\ Cardinality(commonWords) <= 2)

\* the three `continue` gates of the loop body, in the code's order
passesGates(searchWords, result, ord) ==
    LET nameLower == ToLower(result.LegalName)
        resultWords == stringToSet(Fields(nameLower))
        commonWords == intersection(searchWords, resultWords, ord)
    IN  /\ isCompany(nameLower)
        /\ Cardinality(commonWords) # 0
        /\ ~(hasUnrelated(nameLower) /\ Cardinality(commonWords) < 2)

\* a score whose contains bonus is an `else if` of the exact bonus
totalScoreElseIf(searchLower, searchWords, result, ord) ==
    LET nameLower == ToLower(result.LegalName)
        resultWords == stringToSet(Fields(nameLower))
        commonWords == intersection(searchWords, resultWords, ord)
        exactMatch == IF searchLower = nameLower THEN ExactBonus ELSE 0
        containsMatch == IF searchLower # nameLower
                            /\ (Contains(searchLower, nameLower) \/ Contains(nameLower, searchLower))
                         THEN ContainsBonus ELSE 0
        wordMatch == Cardinality(commonWords) * WordWeight
    IN  exactMatch + containsMatch + wordMatch + scoreValue(result.Score)

\* totalScore of a result that passed the gates
totalScore(searchLower, searchWords, result, ord) ==
    LET nameLower == ToLower(result.LegalName)
        resultWords == stringToSet(Fields(nameLower))
        commonWords == intersection(searchWords, resultWords, ord)
        exactMatch == IF searchLower = nameLower THEN ExactBonus ELSE 0
        containsMatch == IF Contains(searchLower, nameLower) \/ Contains(nameLower, searchLower)
                         THEN ContainsBonus ELSE 0
        wordMatch == Cardinality(commonWords) * WordWeight
    IN  exactMatch + containsMatch + wordMatch + scoreValue(result.Score)

\* the first loop: scoredResults, appended in the order of results
RECURSIVE scoreLoop(_, _, _, _, _, _)
scoreLoop(searchLower, searchWords, results, ord, i, scored) ==
    IF i > Len(results) THEN scored
    ELSE IF passesGates(searchWords, results[i], ord)
         THEN scoreLoop(searchLower, searchWords, results, ord, i + 1,
                        Append(scored, [score |-> totalScore(searchLower, searchWords, results[i], ord),
                                        result |-> results[i]]))
         ELSE scoreLoop(searchLower, searchWords, results, ord, i + 1, scored)

\* a scan that also replaces the best on an equal score
RECURSIVE maxScanLastWins(_, _, _, _)
maxScanLastWins(scored, j, maxScore, maxResult) ==
    IF j > Len(scored) THEN maxResult
    ELSE IF scored[j].score >= maxScore
         THEN maxScanLastWins(scored, j + 1, scored[j].score, scored[j].result)
         ELSE maxScanLastWins(scored, j + 1, maxScore, maxResult)

\* the second loop: for _, sr := range scoredResults[1:] { if sr.score > maxScore ... }
RECURSIVE maxScan(_, _, _, _)
maxScan(scored, j, maxScore, maxResult) ==
    IF j > Len(scored) THEN maxResult
    ELSE IF scored[j].score > maxScore
         THEN maxScan(scored, j + 1, scored[j].score, scored[j].result)
         ELSE maxScan(scored, j + 1, maxScore, maxResult)

\* one execution of Client.findBestResult: the scoredResults slice it builds
\* and the Result it returns
findBestResultRun(businessName, results, ord) ==
    IF Len(results) = 0 THEN [scoredResults |-> <<>>, best |-> ZeroResult]
    ELSE LET searchLower == ToLower(TrimSpace(businessName))
             searchWords == stringToSet(Fields(searchLower))
             scoredResults == scoreLoop(searchLower, searchWords, results, ord, 1, <<>>)
         IN  [scoredResults |-> scoredResults,
              best |-> IF Len(scoredResults) = 0 THEN ZeroResult
                       ELSE maxScan(scoredResults, 2, scoredResults[1].score,
                                    scoredResults[1].result)]

\* a findBestResult that falls back to the first result when none is scored
findBestResultFallbackFirst(businessName, results, ord) ==
    LET best == findBestResultRun(businessName, results, ord).best
    IN  IF best = ZeroResult /\ Len(results) > 0 THEN results[1] ELSE best

\* Client.findBestResult
findBestResult(businessName, results, ord) ==
    findBestResultRun(businessName, results, ord).best

\* the iteration orders `range searchWords` may take in one call
RangeOrders(businessName) ==
    Perms(stringToSet(Fields(ToLower(TrimSpace(businessName)))))

-----------------------------------------------------------------------------
(* Bounded inputs for exercising findBestResult.  The candidates are       *)
(* Results as getAllResults builds them: trimmed fields, 11-digit ABNs.    *)

MaxCands == 3

WAcme == <<"A","c","m","e">>
WHoldings == <<"H","o","l","d","i","n","g","s">>
WCleaning == <<"C","l","e","a","n","i","n","g">>
WServices == <<"S","e","r","v","i","c","e","s">>
WMusic == <<"M","u","s","i","c">>
WOrchard == <<"O","r","c","h","a","r","d">>
WLimited == <<"L","i","m","i","t","e","d">>
Score99 == <<"9","9">>

AbnN(d) == SubSeq(Abn1, 1, 10) \o <<d>>

NameApplePtyLtd == Cat3(WApple, WPty, WLtd)
NameAcmeHoldings == Cat2(Cat3(WAcme, WHoldings, WPty), WLtd)
NameAcmeCleaning == Cat2(Cat3(WAcme, WCleaning, WPty), WLtd)
NameAcmeCleaningServices == Cat3(WAcme, WCleaning, WServices)

RkCandidates ==
    { MkResult(AbnN("1"), StrNSW, NameAcmeHoldings, Score60),
      MkResult(AbnN("2"), StrVIC, NameAcmeCleaning, Score80),
      MkResult(AbnN("3"), StrNSW, NameApplePtyLtd, Score95),
      MkResult(AbnN("4"), StrVIC, ToUpper(NameApplePtyLtd), Score95),
      MkResult(AbnN("5"), StrNSW, Cat2(Cat3(WApple, WMusic, WPty), WLtd), <<>>),
      MkResult(AbnN("6"), StrNSW, Cat2(WApple, WOrchard), Score99) }

RkNames == { NameAcmeCleaningServices, ToLower(WApple), Pad(NameApplePtyLtd), WAcme }

RkInit ==
    rkPc = "idle" /\ rkName = <<>> /\ rkResults = <<>> /\ rkOut = {} /\ rkScored = {}

\* a caller fixes the arguments of findBestResult
RkStart ==
    /\ rkPc = "idle"
    /\ \E name \in RkNames, results \in SeqsUpTo(RkCandidates, MaxCands) :
          /\ rkName' = name
          /\ rkResults' = results
    /\ rkOut' = {} /\ rkScored' = {}
    /\ rkPc' = "armed"

\* one call of findBestResult on the fixed arguments: the first, or a repeat
RkCall ==
    /\ rkPc \in {"armed", "called", "recalled"}
    /\ \E ord \in RangeOrders(rkName) :
          LET run == findBestResultRun(rkName, rkResults, ord)
          IN  /\ rkOut' = rkOut \cup {run.best}
              /\ rkScored' = rkScored \cup {run.scoredResults}
    /\ rkPc' = IF rkPc = "armed" THEN "called" ELSE "recalled"
    /\ UNCHANGED <<rkName, rkResults>>

\* the arguments are dropped
RkReset ==
    /\ rkPc # "idle"
    /\ rkPc' = "idle" /\ rkName' = <<>> /\ rkResults' = <<>>
    /\ rkOut' = {} /\ rkScored' = {}

-----------------------------------------------------------------------------
(* Client.Lookup: stage 1 search and ranking, stage 2 re-verification.     *)

\* what searchByName returns: an error, or the body read from the response
ErrResp == [err |-> TRUE, body |-> EmptyBody]
OkResp(b) == [err |-> FALSE, body |-> b]
NoResp == [err |-> TRUE, body |-> [kind |-> "none"]]

\* the four named results of Lookup
RetOf(r) == <<r.ABN, r.State, r.LegalName, r.Score>>
ZeroRet == <<<<>>, <<>>, <<>>, <<>>>>

\* a scan that keeps going after a match: the last matching ABN wins
RECURSIVE scanForABNNoBreak(_, _, _)
scanForABNNoBreak(allResults2, i, bestResult) ==
    IF i > Len(allResults2) THEN bestResult
    ELSE IF allResults2[i].ABN = bestResult.ABN
         THEN scanForABNNoBreak(allResults2, i + 1, allResults2[i])
         ELSE scanForABNNoBreak(allResults2, i + 1, bestResult)

\* a scan that takes the first stage-2 result whatever its ABN
scanForABNFirst(allResults2, i, bestResult) ==
    IF Len(allResults2) > 0 THEN allResults2[1] ELSE bestResult

\* a scan that takes the first stage-2 result when no ABN matches
scanForABNFallback(allResults2, i, bestResult) ==
    IF \E k \in DOMAIN allResults2 : allResults2[k].ABN = bestResult.ABN
    THEN allResults2[SetMin({k \in DOMAIN allResults2 : allResults2[k].ABN = bestResult.ABN})]
    ELSE IF Len(allResults2) > 0 THEN allResults2[1] ELSE bestResult

\* for _, result := range allResults2 { if result.ABN == bestResult.ABN { bestResult = result; break } }
RECURSIVE scanForABN(_, _, _)
scanForABN(allResults2, i, bestResult) ==
    IF i > Len(allResults2) THEN bestResult
    ELSE IF allResults2[i].ABN = bestResult.ABN
         THEN allResults2[i]
         ELSE scanForABN(allResults2, i + 1, bestResult)

\* a stage 2 that gives up when the verification search fails
stage2ResultPropagate(bestResult, resp2) ==
    IF resp2.err \/ resp2.body.kind # "doc" THEN ZeroResult
    ELSE scanForABN(getAllResults(resp2.body), 1, bestResult)

\* bestResult after the stage-2 search returned resp2
stage2Result(bestResult, resp2) ==
    IF resp2.err THEN bestResult
    ELSE scanForABN(getAllResults(resp2.body), 1, bestResult)

MaxLkRecs == 2

NameAppleHoldings == Cat2(Cat3(WApple, WHoldings, WPty), WLtd)

LkRecords ==
    { Rec(Abn1, StrActive, StrNSW, NameApplePtyLtd, Score95, <<>>, <<>>, <<>>),
      Rec(Pad(Abn1), StrActive, StrVIC, <<>>, <<>>, Cat3(WApple, WPty, WLimited), <<>>, Score80),
      Rec(Abn1, StrCancelled, StrVIC, NameAppleHoldings, Score99, <<>>, <<>>, <<>>),
      Rec(Abn2, StrActive, StrNSW, NameAppleHoldings, Score60, <<>>, <<>>, <<>>),
      Rec(Abn3, StrActive, StrVIC, Cat2(WApple, WOrchard), Score99, <<>>, <<>>, <<>>) }

LkResponses ==
    {ErrResp, OkResp(EmptyBody), OkResp(GarbageBody),
     OkResp(TruncatedBody(<<Rec(Abn1, StrActive, StrNSW, NameApplePtyLtd, Score95, <<>>, <<>>, <<>>)>>)),
     OkResp(DocBody(<<Rec(SubSeq(Abn1, 1, 10), StrActive, StrNSW, NameApplePtyLtd, Score95,
                          <<>>, <<>>, <<>>)>>))}
    \cup {OkResp(DocBody(r)) : r \in SeqsUpTo(LkRecords, MaxLkRecs)}

LkNames == { ToLower(WApple), Pad(NameApplePtyLtd) }

LkInit ==
    /\ lkPc = "idle" /\ lkName = <<>> /\ lkQueries = <<>>
    /\ lkResp1 = NoResp /\ lkAll = <<>> /\ lkBest = ZeroResult
    /\ lkResp2 = NoResp /\ lkRet = ZeroRet

\* Lookup is called and sends the stage-1 search
LkCall ==
    /\ lkPc = "idle"
    /\ \E name \in LkNames :
          /\ lkName' = name
          /\ lkQueries' = <<name>>
    /\ lkPc' = "stage1"
    /\ UNCHANGED <<lkResp1, lkAll, lkBest, lkResp2, lkRet>>

\* a stage-1 return that repeats the search with the name Lookup was given
LkStage1ReturnSameTerm ==
    /\ lkPc = "stage1"
    /\ \E resp \in LkResponses, ord \in RangeOrders(lkName) :
          LET allResults == IF resp.err THEN <<>> ELSE getAllResults(resp.body)
              bestResult == IF resp.err THEN ZeroResult
                            ELSE findBestResult(lkName, allResults, ord)
          IN  /\ lkResp1' = resp
              /\ lkAll' = allResults
              /\ lkBest' = bestResult
              /\ IF resp.err \/ bestResult.ABN = <<>>
                 THEN /\ lkRet' = ZeroRet
                      /\ lkPc' = "done"
                      /\ UNCHANGED lkQueries
                 ELSE /\ lkQueries' = Append(lkQueries, lkName)
                      /\ lkPc' = "stage2"
                      /\ UNCHANGED lkRet
    /\ UNCHANGED <<lkName, lkResp2>>

\* the stage-1 search returns: extraction, ranking, and either a return or
\* the stage-2 search being sent.  findBestResult ranges over allResults by
\* value and assigns to none of its elements, so the slice is afterwards as
\* getAllResults returned it.
LkStage1Return ==
    /\ lkPc = "stage1"
    /\ \E resp \in LkResponses, ord \in RangeOrders(lkName) :
          LET allResults == IF resp.err THEN <<>> ELSE getAllResults(resp.body)
              bestResult == IF resp.err THEN ZeroResult
                            ELSE findBestResult(lkName, allResults, ord)
          IN  /\ lkResp1' = resp
              /\ lkAll' = allResults
              /\ lkBest' = bestResult
              /\ IF resp.err \/ bestResult.ABN = <<>>
                 THEN /\ lkRet' = ZeroRet
                      /\ lkPc' = "done"
                      /\ UNCHANGED lkQueries
                 ELSE IF bestResult.LegalName # <<>>
                 THEN /\ lkQueries' = Append(lkQueries, bestResult.LegalName)
                      /\ lkPc' = "stage2"
                      /\ UNCHANGED lkRet
                 ELSE /\ lkRet' = RetOf(bestResult)
                      /\ lkPc' = "done"
                      /\ UNCHANGED lkQueries
    /\ UNCHANGED <<lkName, lkResp2>>

\* the stage-2 search returns and Lookup returns
LkStage2Return ==
    /\ lkPc = "stage2"
    /\ \E resp \in LkResponses :
          /\ lkResp2' = resp
          /\ lkRet' = RetOf(stage2Result(lkBest, resp))
    /\ lkPc' = "done"
    /\ UNCHANGED <<lkName, lkQueries, lkResp1, lkAll, lkBest>>

\* the caller has consumed the return values
LkReset ==
    /\ lkPc = "done"
    /\ lkPc' = "idle" /\ lkName' = <<>> /\ lkQueries' = <<>>
    /\ lkResp1' = NoResp /\ lkAll' = <<>> /\ lkBest' = ZeroResult
    /\ lkResp2' = NoResp /\ lkRet' = ZeroRet

-----------------------------------------------------------------------------
(* internal/server: Server, NewServer, LoadResults, handleMerchantAPI.     *)

NumCallers == 2
Callers == 1..NumCallers

PathPrefix == <<"/","a","p","i","/","m","e","r","c","h","a","n","t","/">>

\* strings.TrimPrefix
TrimPrefix(s, prefix) ==
    IF Len(s) >= Len(prefix) /\ SubSeq(s, 1, Len(prefix)) = prefix
    THEN SubSeq(s, Len(prefix) + 1, Len(s))
    ELSE s

\* strings.Trim(s, "/"): drop leading and trailing slashes
TrimSlash(s) ==
    LET keep == {i \in 1..Len(s) : s[i] # "/"}
    IN  IF keep = {} THEN <<>> ELSE SubSeq(s, SetMin(keep), SetMax(keep))

\* merchantName as the handler derives it from r.URL.Path
merchantNameOf(path) == TrimSlash(TrimPrefix(path, PathPrefix))

KeyApple == ToLower(WApple)
KeyAcme == ToLower(WAcme)

\* MerchantResult as LoadResults builds it from one CSV row
LoadedResult(name, abn, st, legal, verified) ==
    [Name |-> name, GoogleLegalName |-> <<>>, GoogleState |-> <<>>,
     GooglePostcode |-> <<>>, ABNFound |-> abn, ABNLegalName |-> legal,
     ABNState |-> st, Verified |-> verified, ABNCount |-> 0, AllABNResults |-> <<>>]

\* s.results after LoadResults: it is never written again
SvResults ==
    (KeyApple :> LoadedResult(KeyApple, Abn1, StrNSW, NameApplePtyLtd, <<"Y","e","s">>))
    @@ (KeyAcme :> LoadedResult(KeyAcme, <<>>, <<>>, KeyAcme, <<"N","o">>))

\* request paths the handler is called with
SvPaths ==
    { PathPrefix \o KeyApple, PathPrefix \o KeyApple \o <<"/">>,
      PathPrefix \o KeyAcme, PathPrefix \o WApple }

SvNames == {merchantNameOf(p) : p \in SvPaths}

\* what searchByName may return to GetAllResults
SvResponses ==
    { ErrResp, OkResp(GarbageBody),
      OkResp(DocBody(<<Rec(Abn1, StrActive, StrNSW, NameApplePtyLtd, Score95, <<>>, <<>>, <<>>)>>)) }

\* Client.GetAllResults: nil when the search fails
GetAllResults(resp) == IF resp.err THEN <<>> ELSE getAllResults(resp.body)

\* the google.MerchantInfo ExtractMerchantInfo returns.  The handler copies
\* three of its fields into the entry and branches on none of them, so one
\* value stands for what the search may find.
SvGoogleInfos ==
    { [LegalName |-> NameApplePtyLtd, State |-> StrNSW, Postcode |-> <<"2","0","0","0">>] }

NoResult == [Name |-> <<>>]
NoResponse == [status |-> 0, cached |-> FALSE, body |-> NoResult]
NotFound == [status |-> 404, cached |-> FALSE, body |-> NoResult]
Ok200(r, fromCache) == [status |-> 200, cached |-> fromCache, body |-> r]

\* a cache read that never finds the entry
cacheLookupNeverCached(cache, name) ==
    [cached |-> FALSE, cachedResult |-> NoResult]

\* cachedResult, cached := s.cache[merchantName]
cacheLookup(cache, name) ==
    IF name \in DOMAIN cache
    THEN [cached |-> TRUE, cachedResult |-> cache[name]]
    ELSE [cached |-> FALSE, cachedResult |-> NoResult]

\* a store into a fresh map: the entries of the other names are lost
cachePutFresh(cache, name, result) == (name :> result)

\* a store that leaves the map as it was
cachePutDropped(cache, name, result) == cache

\* s.cache[merchantName] = result
cachePut(cache, name, result) ==
    [k \in DOMAIN cache \cup {name} |-> IF k = name THEN result ELSE cache[k]]

SvInit ==
    /\ svCache = << >>
    /\ svMutex = [writer |-> {}, readers |-> {}]
    /\ svPc = [c \in Callers |-> "idle"]
    /\ svName = [c \in Callers |-> <<>>]
    /\ svResult = [c \in Callers |-> NoResult]
    /\ svResp = [c \in Callers |-> NoResponse]
    /\ svAbrCalls = [k \in DOMAIN SvResults |-> 0]
    /\ svGoogleCalls = [k \in DOMAIN SvResults |-> 0]

\* a handler that goes on to the cache with a name s.results does not hold
SvRequestNoTableCheck(c) ==
    /\ svPc[c] = "idle"
    /\ \E path \in SvPaths :
          LET merchantName == merchantNameOf(path)
          IN  /\ svName' = [svName EXCEPT ![c] = merchantName]
              /\ svResult' = [svResult EXCEPT ![c] =
                                  IF merchantName \in DOMAIN SvResults
                                  THEN SvResults[merchantName]
                                  ELSE LoadedResult(<<>>, <<>>, <<>>, <<>>, <<>>)]
              /\ svPc' = [svPc EXCEPT ![c] = "rlock"]
              /\ UNCHANGED svResp
    /\ UNCHANGED <<svCache, svMutex, svAbrCalls, svGoogleCalls>>

\* lines 92-101: the name is taken from the path and looked up in s.results
SvRequest(c) ==
    /\ svPc[c] = "idle"
    /\ \E path \in SvPaths :
          LET merchantName == merchantNameOf(path)
          IN  /\ svName' = [svName EXCEPT ![c] = merchantName]
              /\ IF merchantName \notin DOMAIN SvResults
                 THEN /\ svResp' = [svResp EXCEPT ![c] = NotFound]
                      /\ svPc' = [svPc EXCEPT ![c] = "done"]
                      /\ UNCHANGED svResult
                 ELSE /\ svResult' = [svResult EXCEPT ![c] = SvResults[merchantName]]
                      /\ svPc' = [svPc EXCEPT ![c] = "rlock"]
                      /\ UNCHANGED svResp
    /\ UNCHANGED <<svCache, svMutex, svAbrCalls, svGoogleCalls>>

\* line 104: s.cacheMutex.RLock()
SvRLock(c) ==
    /\ svPc[c] = "rlock"
    /\ svMutex.writer = {}
    /\ svMutex' = [svMutex EXCEPT !.readers = @ \cup {c}]
    /\ svPc' = [svPc EXCEPT ![c] = "read"]
    /\ UNCHANGED <<svCache, svName, svResult, svResp, svAbrCalls, svGoogleCalls>>

\* lines 105-123: the cache is read, the read lock released, and a cached
\* entry is written to the response
SvReadCache(c) ==
    /\ svPc[c] = "read"
    /\ LET got == cacheLookup(svCache, svName[c])
       IN  IF got.cached
           THEN /\ svResp' = [svResp EXCEPT ![c] = Ok200(got.cachedResult, TRUE)]
                /\ svPc' = [svPc EXCEPT ![c] = "done"]
           ELSE /\ svPc' = [svPc EXCEPT ![c] = "miss"]
                /\ UNCHANGED svResp
    /\ svMutex' = [svMutex EXCEPT !.readers = @ \ {c}]
    /\ UNCHANGED <<svCache, svName, svResult, svAbrCalls, svGoogleCalls>>

\* line 126: s.abrClient.GetAllResults(merchantName) is called
SvCallABR(c) ==
    /\ svPc[c] = "miss"
    /\ svAbrCalls' = [svAbrCalls EXCEPT ![svName[c]] = @ + 1]
    /\ svPc' = [svPc EXCEPT ![c] = "abr"]
    /\ UNCHANGED <<svCache, svMutex, svName, svResult, svResp, svGoogleCalls>>

\* lines 126-131: GetAllResults returns, its results are put in `result`,
\* and ExtractMerchantInfo is called
SvABRReturn(c) ==
    /\ svPc[c] = "abr"
    /\ \E resp \in SvResponses :
          LET allResults == GetAllResults(resp)
          IN  svResult' = [svResult EXCEPT ![c] =
                              [@ EXCEPT !.AllABNResults = allResults,
                                        !.ABNCount = Len(allResults)]]
    /\ svGoogleCalls' = [svGoogleCalls EXCEPT ![svName[c]] = @ + 1]
    /\ svPc' = [svPc EXCEPT ![c] = "google"]
    /\ UNCHANGED <<svCache, svMutex, svName, svResp, svAbrCalls>>

\* lines 131-134: ExtractMerchantInfo returns (its error is ignored)
SvGoogleReturn(c) ==
    /\ svPc[c] = "google"
    /\ \E googleInfo \in SvGoogleInfos :
          svResult' = [svResult EXCEPT ![c] =
                          [@ EXCEPT !.GoogleLegalName = googleInfo.LegalName,
                                    !.GoogleState = googleInfo.State,
                                    !.GooglePostcode = googleInfo.Postcode]]
    /\ svPc' = [svPc EXCEPT ![c] = "lock"]
    /\ UNCHANGED <<svCache, svMutex, svName, svResp, svAbrCalls, svGoogleCalls>>

\* line 137: s.cacheMutex.Lock()
SvLock(c) ==
    /\ svPc[c] = "lock"
    /\ svMutex.writer = {}
    /\ svMutex.readers = {}
    /\ svMutex' = [svMutex EXCEPT !.writer = {c}]
    /\ svPc' = [svPc EXCEPT ![c] = "store"]
    /\ UNCHANGED <<svCache, svName, svResult, svResp, svAbrCalls, svGoogleCalls>>

\* lines 138-153: the entry is stored, the lock released, the response written
SvStore(c) ==
    /\ svPc[c] = "store"
    /\ svCache' = cachePut(svCache, svName[c], svResult[c])
    /\ svMutex' = [svMutex EXCEPT !.writer = {}]
    /\ svResp' = [svResp EXCEPT ![c] = Ok200(svResult[c], FALSE)]
    /\ svPc' = [svPc EXCEPT ![c] = "done"]
    /\ UNCHANGED <<svName, svResult, svAbrCalls, svGoogleCalls>>

\* the handler has returned; the goroutine serves the next request
SvFinish(c) ==
    /\ svPc[c] = "done"
    /\ svPc' = [svPc EXCEPT ![c] = "idle"]
    /\ svName' = [svName EXCEPT ![c] = <<>>]
    /\ svResult' = [svResult EXCEPT ![c] = NoResult]
    /\ svResp' = [svResp EXCEPT ![c] = NoResponse]
    /\ UNCHANGED <<svCache, svMutex, svAbrCalls, svGoogleCalls>>

\* a request that arrives only when no other handler is running
SvRequestAlone(c) ==
    /\ \A d \in Callers : svPc[d] \in {"idle", "done"}
    /\ SvRequest(c)

-----------------------------------------------------------------------------
(* brandfetch: enrich.  Each pool.Exec is one step whose outcome (nil or an *)
(* error) the database decides; the two Brandfetch calls of an iteration   *)
(* only decide which row is upserted, their errors being printed and       *)
(* dropped.                                                                *)

MaxRows == 2

\* RawTransaction rows of raw_transactions (description is unique)
BfTransactions ==
    { [ID |-> "id-1", Description |-> "woolworths"],
      [ID |-> "id-2", Description |-> "bunnings"],
      [ID |-> "id-3", Description |-> "unknown shop"] }

NilErr == "nil"
BfExecErrs == {NilErr, "exec failed"}

\* fetchPending: the unprocessed rows, in the order the database returns them
BfPending(processed) ==
    {rows \in SeqsUpTo({tx \in BfTransactions : tx.ID \notin processed}, MaxRows) :
        /\ Len(rows) > 0
        /\ \A i, j \in DOMAIN rows : rows[i] = rows[j] => i = j}

\* an enrich that goes on to the mark although the upsert failed
afterUpsertIgnoreErr(err) == "mark"

\* `if err := upsertEnriched(...); err != nil { return matches, misses, err }`
afterUpsert(err) == IF err # NilErr THEN "returned" ELSE "mark"

\* `if _, err := pool.Exec(...); err != nil { return ... }`, else the next
\* iteration, or the final return after the last row
afterMark(err, last) ==
    IF err # NilErr THEN "returned" ELSE IF last THEN "returned" ELSE "search"

\* the EnrichedRow the iteration upserts, reduced to brand_name
enrichedBrand(found) == IF found THEN "brand" ELSE "null"

\* insert ... on conflict (transaction_cache) do update
upsertEnriched(table, desc, brand) ==
    [d \in DOMAIN table \cup {desc} |-> IF d = desc THEN brand ELSE table[d]]

BfInit ==
    /\ bfPc = "idle" /\ bfRows = <<>> /\ bfIdx = 0 /\ bfFound = FALSE
    /\ bfEnriched = << >> /\ bfProcessed = {}
    /\ bfCounts = [matches |-> 0, misses |-> 0]
    /\ bfErr = NilErr /\ bfLog = <<>>

\* main calls enrich with the rows fetchPending returned
BfStart ==
    /\ bfPc = "idle"
    /\ \E rows \in BfPending(bfProcessed) : bfRows' = rows
    /\ bfIdx' = 1
    /\ bfCounts' = [matches |-> 0, misses |-> 0]
    /\ bfErr' = NilErr /\ bfLog' = <<>>
    /\ bfPc' = "search"
    /\ UNCHANGED <<bfFound, bfEnriched, bfProcessed>>

\* lines 213-230: searchBrand and fetchBrandProfile
BfSearch ==
    /\ bfPc = "search"
    /\ \E found \in BOOLEAN : bfFound' = found
    /\ bfPc' = "upsert"
    /\ UNCHANGED <<bfRows, bfIdx, bfEnriched, bfProcessed, bfCounts, bfErr, bfLog>>

\* lines 232-258: the upsert of the match row or of the miss row
BfUpsert ==
    /\ bfPc = "upsert"
    /\ \E err \in BfExecErrs :
          LET tx == bfRows[bfIdx]
          IN  /\ bfLog' = Append(bfLog, [op |-> "upsert", id |-> tx.ID, err |-> err])
              /\ bfEnriched' = IF err = NilErr
                               THEN upsertEnriched(bfEnriched, tx.Description,
                                                   enrichedBrand(bfFound))
                               ELSE bfEnriched
              /\ bfPc' = afterUpsert(err)
              /\ bfErr' = IF afterUpsert(err) = "returned" THEN err ELSE bfErr
              /\ bfCounts' = IF afterUpsert(err) = "returned" THEN bfCounts
                             ELSE IF bfFound
                                  THEN [bfCounts EXCEPT !.matches = @ + 1]
                                  ELSE [bfCounts EXCEPT !.misses = @ + 1]
    /\ UNCHANGED <<bfRows, bfIdx, bfFound, bfProcessed>>

\* lines 260-266: update raw_transactions set processed = true where id = $1
BfMark ==
    /\ bfPc = "mark"
    /\ \E err \in BfExecErrs :
          LET tx == bfRows[bfIdx]
              next == afterMark(err, bfIdx = Len(bfRows))
          IN  /\ bfLog' = Append(bfLog, [op |-> "mark", id |-> tx.ID, err |-> err])
              /\ bfProcessed' = IF err = NilErr THEN bfProcessed \cup {tx.ID}
                                ELSE bfProcessed
              /\ bfPc' = next
              /\ bfErr' = IF err # NilErr /\ next = "returned" THEN err ELSE bfErr
              /\ bfIdx' = IF next = "search" THEN bfIdx + 1 ELSE bfIdx
    /\ UNCHANGED <<bfRows, bfFound, bfEnriched, bfCounts>>

\* main has taken the return values of enrich; the tables stay as they are
BfReturn ==
    /\ bfPc = "returned"
    /\ bfPc' = "idle" /\ bfRows' = <<>> /\ bfIdx' = 0 /\ bfFound' = FALSE
    /\ bfCounts' = [matches |-> 0, misses |-> 0]
    /\ bfErr' = NilErr /\ bfLog' = <<>>
    /\ UNCHANGED <<bfEnriched, bfProcessed>>

-----------------------------------------------------------------------------
(* Specifications.                                                         *)

ExNext == (ExDecode \/ ExReset) /\ UNCHANGED <<rkVars, lkVars, svVars, bfVars>>
RkNext == (RkStart \/ RkCall \/ RkReset) /\ UNCHANGED <<exVars, lkVars, svVars, bfVars>>
LkNext == (LkCall \/ LkStage1Return \/ LkStage2Return \/ LkReset)
          /\ UNCHANGED <<exVars, rkVars, svVars, bfVars>>
BfNext == (BfStart \/ BfSearch \/ BfUpsert \/ BfMark \/ BfReturn)
          /\ UNCHANGED <<exVars, rkVars, lkVars, svVars>>

SvStep(c) ==
    \/ SvRLock(c) \/ SvReadCache(c) \/ SvCallABR(c) \/ SvABRReturn(c)
    \/ SvGoogleReturn(c) \/ SvLock(c) \/ SvStore(c) \/ SvFinish(c)

\* handlers run concurrently, one goroutine per request (net/http)
Next == (\E c \in Callers : SvRequest(c) \/ SvStep(c))
        /\ UNCHANGED <<exVars, rkVars, lkVars, bfVars>>

\* requests arrive one after the other: each starts after the last returned
SeqNext == (\E c \in Callers : SvRequestAlone(c) \/ SvStep(c))
           /\ UNCHANGED <<exVars, rkVars, lkVars, bfVars>>

Init == ExInit /\ RkInit /\ LkInit /\ SvInit /\ BfInit

Spec == Init /\ [][Next]_vars
SeqSpec == Init /\ [][SeqNext]_vars
ExSpec == Init /\ [][ExNext]_vars
RkSpec == Init /\ [][RkNext]_vars
LkSpec == Init /\ [][LkNext]_vars
BfSpec == Init /\ [][BfNext]_vars

-----------------------------------------------------------------------------
(* Properties of the result cache (handleMerchantAPI).                     *)

\* the handlers whose GetAllResults call for key k has started and not returned
InFlight(k) == {c \in Callers : svPc[c] = "abr" /\ svName[c] = k}

\* C1: for every cache key, at most one registry resolution started by a
\* cache miss is in progress at any moment.
C1_AtMostOneInFlight ==
    \A k \in DOMAIN SvResults : Cardinality(InFlight(k)) <= 1

\* C2: concurrent lookups of one name on a cold cache invoke the registry
\* resolution once in total, and all of them receive the same result.
C2_OneResolutionSameResult ==
    \A k \in DOMAIN SvResults :
        /\ svAbrCalls[k] <= 1
        /\ \A c, d \in Callers :
              (svPc[c] = "done" /\ svPc[d] = "done" /\ svName[c] = k /\ svName[d] = k)
                  => svResp[c].body = svResp[d].body

C4_HitReturnsStoredNoIO ==
    [][\A c \in Callers :
          (svPc[c] = "read" /\ svName[c] \in DOMAIN svCache /\ svPc'[c] # "read")
              => /\ svPc'[c] = "done"
                 /\ svResp'[c] = Ok200(svCache[svName[c]], TRUE)
                 /\ svCache' = svCache
                 /\ svAbrCalls' = svAbrCalls
                 /\ svGoogleCalls' = svGoogleCalls]_vars

\* a handler has answered from the cache with the entry the cache holds
C4_Witness ==
    \E c \in Callers :
        /\ svPc[c] = "done"
        /\ svResp[c].status = 200 /\ svResp[c].cached
        /\ svName[c] \in DOMAIN svCache
        /\ svResp[c].body = svCache[svName[c]]
        /\ svResp[c].body.ABNCount = 1

-----------------------------------------------------------------------------
(* Properties of the extraction (getAllResults).                           *)

\* the claim's validity condition, stated on the raw record
C5_Valid(rec) ==
    LET id == TrimSpace(rec.idValue)
    IN  /\ Len(id) = 11
        /\ \A i \in DOMAIN id : id[i] \in Digits
        /\ TrimSpace(rec.idStatus) = StrActive

ExRecordsOfBody == IF exXml.kind = "doc" THEN exXml.records ELSE <<>>

\* C5: a record yields a candidate iff its trimmed identifier is exactly 11
\* digits and its trimmed status is "Active": the candidates are exactly the
\* valid records, and none comes from an inactive or malformed record.
C5_OnlyValidRecordsExtracted ==
    exPc = "decoded" =>
        LET valid == SelectSeq(ExRecordsOfBody, C5_Valid)
        IN  /\ Len(exOut) = Len(valid)
            /\ \A i \in DOMAIN exOut :
                  /\ exOut[i].ABN = TrimSpace(valid[i].idValue)
                  /\ Len(exOut[i].ABN) = 11
                  /\ \A j \in 1..Len(exOut[i].ABN) : exOut[i].ABN[j] \in Digits

\* a response with a valid record (padded identifier) and an invalid one
C5_Witness ==
    /\ exPc = "decoded"
    /\ Len(exOut) = 1
    /\ Len(ExRecordsOfBody) = 2
    /\ exOut[1].ABN = Abn2
    /\ \E i \in DOMAIN ExRecordsOfBody : Len(TrimSpace(ExRecordsOfBody[i].idValue)) = 12

-----------------------------------------------------------------------------
(* Properties of the ranking (findBestResult).                             *)

RkSearchLower == ToLower(TrimSpace(rkName))
RkCommon(r) ==
    stringToSet(Fields(RkSearchLower)) \cap stringToSet(Fields(ToLower(r.LegalName)))

\* the three gates as the specification words them
RkSurvives(r) ==
    /\ isCompany(ToLower(r.LegalName))
    /\ RkCommon(r) # {}
    /\ ~(hasUnrelated(ToLower(r.LegalName)) /\ Cardinality(RkCommon(r)) < 2)

\* the composite score as the specification words it
RkComposite(r) ==
    (IF RkSearchLower = ToLower(r.LegalName) THEN 1000 ELSE 0)
    + (IF Contains(RkSearchLower, ToLower(r.LegalName))
          \/ Contains(ToLower(r.LegalName), RkSearchLower) THEN 500 ELSE 0)
    + 100 * Cardinality(RkCommon(r))
    + scoreValue(r.Score)

RkSurvivors == {i \in DOMAIN rkResults : RkSurvives(rkResults[i])}

\* i is the earliest position among the surviving positions surv that carry
\* the maximal score of sc
RkFirstMaximal(surv, sc, i) ==
    /\ i \in surv
    /\ \A j \in surv : sc[j] < sc[i] \/ (sc[j] = sc[i] /\ i <= j)

\* C6: for a fixed name and a fixed candidate list every call of
\* findBestResult returns the same candidate (or the same "no match"),
\* whatever order the map iterations take, ties included.
C6_RankDeterministic == Cardinality(rkOut) <= 1

\* repeated calls have returned a candidate for a three-word name where the
\* surviving candidates differ in how many words they share with it
C6_Witness ==
    /\ rkPc = "recalled"
    /\ Cardinality(stringToSet(Fields(RkSearchLower))) = 3
    /\ ZeroResult \notin rkOut
    /\ \E i, j \in RkSurvivors :
          Cardinality(RkCommon(rkResults[i])) # Cardinality(RkCommon(rkResults[j]))

\* C7: the ranker returns a gate-passing candidate of maximal composite
\* score, the earliest in list order among those sharing the maximum (a later
\* candidate wins only with a strictly higher score); with no gate-passing
\* candidate it returns the zero Result.
C7_FirstMaximalWins ==
    rkOut # {} =>
        LET surv == RkSurvivors
            sc == [i \in surv |-> RkComposite(rkResults[i])]
        IN  \A out \in rkOut :
               IF surv = {} THEN out = ZeroResult
               ELSE \E i \in surv : RkFirstMaximal(surv, sc, i) /\ out = rkResults[i]

\* a call has returned the earlier of two distinct candidates tied at the
\* top, with a lower-scored surviving candidate before them
C7_Witness ==
    /\ rkPc = "called"
    /\ LET surv == RkSurvivors
           sc == [i \in surv |-> RkComposite(rkResults[i])]
       IN  \E i, j, k \in surv :
              /\ k < i /\ i < j
              /\ sc[k] < sc[i] /\ sc[i] = sc[j]
              /\ rkResults[i] # rkResults[j]
              /\ RkFirstMaximal(surv, sc, i)
              /\ rkOut = {rkResults[i]}

-----------------------------------------------------------------------------
(* Properties of Lookup's stage 2.                                         *)

LkStage2Done == lkPc = "done" /\ Len(lkQueries) = 2

LkRecords2 == IF lkResp2.body.kind = "doc" THEN lkResp2.body.records ELSE <<>>

\* positions of the valid stage-2 records carrying the stage-1 identifier
LkMatches ==
    {i \in DOMAIN LkRecords2 :
        C5_Valid(LkRecords2[i]) /\ TrimSpace(LkRecords2[i].idValue) = lkBest.ABN}

\* C8: when the stage-2 query fails (transport error, or a body that cannot
\* be decoded) Lookup returns the stage-1 candidate's four fields unchanged,
\* never an error or "no match".
C8_Stage2FailureKeepsStage1 ==
    (LkStage2Done /\ (lkResp2.err \/ lkResp2.body.kind \in {"garbage", "truncated", "empty"}))
        => /\ lkRet = RetOf(lkBest)
           /\ lkRet[1] # <<>>

\* stage 2 failed in transport after stage 1 selected a candidate
C8_Witness ==
    /\ LkStage2Done
    /\ lkResp2.err
    /\ lkRet[1] = Abn1
    /\ lkRet[3] # <<>>

\* C9: when the stage-2 response holds a valid candidate with the stage-1
\* identifier, Lookup returns the fields of the first such candidate in
\* response order; the stage-2 candidates are not ranked.
C9_Stage2FirstMatchReplaces ==
    (LkStage2Done /\ ~lkResp2.err /\ LkMatches # {})
        => lkRet = RetOf(recordToResult(LkRecords2[SetMin(LkMatches)]))

\* two stage-2 candidates carry the identifier; the first one's fields, which
\* differ from stage 1's and from the second one's, are returned
C9_Witness ==
    /\ LkStage2Done /\ ~lkResp2.err
    /\ Cardinality(LkMatches) = 2
    /\ lkRet # RetOf(lkBest)
    /\ lkRet # RetOf(recordToResult(LkRecords2[SetMax(LkMatches)]))
    /\ lkRet[1] = lkBest.ABN

\* C10: when the stage-2 query succeeds and none of its valid candidates has
\* the stage-1 identifier, Lookup returns the stage-1 candidate unchanged.
C10_Stage2NoMatchKeepsStage1 ==
    (LkStage2Done /\ ~lkResp2.err /\ lkResp2.body.kind = "doc" /\ LkMatches = {})
        => lkRet = RetOf(lkBest)

\* stage 2 returned valid candidates, none with the identifier (one inactive
\* record does carry it), and the stage-1 fields were returned
C10_Witness ==
    /\ LkStage2Done /\ ~lkResp2.err
    /\ LkMatches = {}
    /\ Len(getAllResults(lkResp2.body)) >= 1
    /\ \E i \in DOMAIN LkRecords2 : TrimSpace(LkRecords2[i].idValue) = lkBest.ABN
    /\ lkRet = RetOf(lkBest)
    /\ lkRet[1] # <<>>

-----------------------------------------------------------------------------
(* Properties of Lookup's stage 1.                                         *)

\* the stage-1 search has returned and Lookup has acted on it
LkStage1Done == lkPc \in {"stage2", "done"}

LkRecords1 == IF lkResp1.body.kind = "doc" THEN lkResp1.body.records ELSE <<>>

\* the legal name the extractor gives the candidate of a record, lower-cased
LkNameLower(r) == ToLower(recordToResult(r).LegalName)

\* the three gates as the specification words them, for the name Lookup got
LkCommon(r) ==
    stringToSet(Fields(ToLower(TrimSpace(lkName)))) \cap stringToSet(Fields(LkNameLower(r)))
LkSurvives(r) ==
    /\ isCompany(LkNameLower(r))
    /\ LkCommon(r) # {}
    /\ ~(hasUnrelated(LkNameLower(r)) /\ Cardinality(LkCommon(r)) < 2)

\* positions of the stage-1 records that are valid and pass every gate
LkCandidates1 ==
    {i \in DOMAIN LkRecords1 : C5_Valid(LkRecords1[i]) /\ LkSurvives(LkRecords1[i])}

\* C11: when the stage-1 query fails in transport, or its body is empty or
\* cannot be decoded, the extractor yields the empty list and Lookup returns
\* "no match" (four empty fields) after that one query, as it does for a
\* response with zero records; no error is propagated.
C11_Stage1FailureIsNoMatch ==
    (LkStage1Done /\ (lkResp1.err \/ lkResp1.body.kind # "doc"))
        => /\ lkAll = <<>>
           /\ lkPc = "done"
           /\ lkRet = ZeroRet
           /\ lkQueries = <<lkName>>

\* Lookup has returned after a stage-1 body that xml.Unmarshal rejected
\* part-way, a valid record already decoded
C11_Witness ==
    /\ lkPc = "done"
    /\ ~lkResp1.err
    /\ lkResp1.body.kind = "truncated"
    /\ \E i \in DOMAIN lkResp1.body.records : C5_Valid(lkResp1.body.records[i])
    /\ lkRet = ZeroRet

\* C12: when stage 1 yields no candidate (the response holds no valid record,
\* or every valid record is rejected by a gate) Lookup returns "no match",
\* four empty fields, and sends no second query.
C12_NoCandidateIsNoMatch ==
    (LkStage1Done /\ ~lkResp1.err /\ lkResp1.body.kind = "doc" /\ LkCandidates1 = {})
        => /\ lkPc = "done"
           /\ lkRet = ZeroRet
           /\ lkQueries = <<lkName>>

\* Lookup has returned "no match" on a response whose only valid record is
\* not a company (entity-type gate)
C12_Witness ==
    /\ lkPc = "done"
    /\ ~lkResp1.err
    /\ \E i \in DOMAIN LkRecords1 :
          C5_Valid(LkRecords1[i]) /\ ~isCompany(LkNameLower(LkRecords1[i]))
    /\ LkCandidates1 = {}
    /\ Len(lkAll) >= 1
    /\ lkRet = ZeroRet

-----------------------------------------------------------------------------
(* Properties of the cache keys, entries and locking (handleMerchantAPI).  *)

\* the key the specification derives from a name: trimmed and case-folded
C13_Key(name) == ToLower(TrimSpace(name))

\* C13: the cache key is the input name after trimming and case folding, so
\* a lookup whose name differs from a cached key only in letter case or in
\* surrounding white space goes on to read that entry: it is not rejected,
\* and the key it reads is in the cache.
C13_FoldedNameHitsEntry ==
    [][\A c \in Callers :
          (svPc[c] = "idle" /\ svPc'[c] # "idle" /\ C13_Key(svName'[c]) \in DOMAIN svCache)
              => /\ svPc'[c] = "rlock"
                 /\ svName'[c] \in DOMAIN svCache]_vars

\* C14: once a cache entry for a key is stored, its value never changes,
\* whatever the interleaving of the handlers.
C14_StoredValueNeverChanges ==
    [][\A k \in DOMAIN svCache \cap DOMAIN svCache' : svCache'[k] = svCache[k]]_vars

\* C15: no cache entry is ever removed or expired: a key that is in the
\* cache is in the cache in every later state.
C15_EntriesNeverRemoved ==
    [][DOMAIN svCache \subseteq DOMAIN svCache']_vars

\* the entry of a second name has been stored beside the first, and a later
\* lookup was answered from the cache
C15_Witness ==
    /\ DOMAIN svCache = DOMAIN SvResults
    /\ Cardinality(DOMAIN svCache) = 2
    /\ \E c \in Callers : svPc[c] = "done" /\ svResp[c].status = 200 /\ svResp[c].cached

\* C16: the resolution and store for one key never blocks a lookup for a
\* different key: a handler waiting to read the cache can take its step
\* unless a writer of its own key holds the lock.
C16_NoCrossKeyBlocking ==
    \A d \in Callers :
        (svPc[d] = "rlock" /\ \A w \in svMutex.writer : svName[w] # svName[d])
            => ENABLED SvRLock(d)

-----------------------------------------------------------------------------
(* Properties of the ranking: a worked example and the composite score.    *)

\* the arguments of the example: "Acme Cleaning Services" against
\* "Acme Holdings Pty Ltd" (score 60) and "Acme Cleaning Pty Ltd" (score 80)
C17_Scenario ==
    /\ rkName = NameAcmeCleaningServices
    /\ Len(rkResults) = 2
    /\ rkResults[1].LegalName = NameAcmeHoldings /\ rkResults[1].Score = Score60
    /\ rkResults[2].LegalName = NameAcmeCleaning /\ rkResults[2].Score = Score80

\* C17: for the name "Acme Cleaning Services" and the candidates
\* ["Acme Holdings Pty Ltd" 60, "Acme Cleaning Pty Ltd" 80] the second
\* candidate, which carries a noise keyword but shares two words with the
\* name, passes the noise gate and is the one selected.
C17_AcmeCleaningSelected ==
    (C17_Scenario /\ rkOut # {})
        => /\ hasUnrelated(ToLower(rkResults[2].LegalName))
           /\ Cardinality(RkCommon(rkResults[2])) = 2
           /\ \A scored \in rkScored :
                 \E k \in DOMAIN scored : scored[k].result = rkResults[2]
           /\ rkOut = {rkResults[2]}

\* findBestResult has been called on the example and returned the second
\* candidate
C17_Witness ==
    /\ C17_Scenario
    /\ rkPc = "called"
    /\ rkOut = {rkResults[2]}

\* the registry score of the claim: the numeric match score, 50 when absent
C20_RegistryScore(r) == IF r.Score = <<>> THEN 50 ELSE DecimalValue(r.Score)

\* the composite score of the claim
C20_Composite(r) ==
    (IF ToLower(TrimSpace(rkName)) = ToLower(r.LegalName) THEN 1000 ELSE 0)
    + (IF Contains(ToLower(TrimSpace(rkName)), ToLower(r.LegalName))
          \/ Contains(ToLower(r.LegalName), ToLower(TrimSpace(rkName)))
       THEN 500 ELSE 0)
    + 100 * Cardinality(RkCommon(r))
    + C20_RegistryScore(r)

\* C20: the composite score of every scored candidate is exactBonus (1000
\* iff the lower-cased trimmed name equals the lower-cased legal name) plus
\* containsBonus (500 iff one is a substring of the other) plus 100 times the
\* number of distinct shared words plus the registry score (the numeric
\* match score, 50 when absent).
C20_CompositeScore ==
    \A scored \in rkScored :
        \A k \in DOMAIN scored : scored[k].score = C20_Composite(scored[k].result)

\* a call has scored an exact match (both bonuses, three shared words, score
\* 95) and a candidate without a match score
C20_Witness ==
    /\ rkPc = "called"
    /\ \E scored \in rkScored :
          \E k, l \in DOMAIN scored :
             /\ ToLower(TrimSpace(rkName)) = ToLower(scored[k].result.LegalName)
             /\ scored[k].score = 1895
             /\ scored[l].result.Score = <<>>
             /\ scored[l].score = 350

-----------------------------------------------------------------------------
(* Order of the extracted list.                                            *)

\* C18: the extracted candidate list keeps the order in which the records
\* appear in the registry response, and it is still that list, unmodified,
\* after the ranking has run over it.
C18_ListKeepsResponseOrder ==
    (LkStage1Done /\ ~lkResp1.err)
        => LET valid == SelectSeq(LkRecords1, C5_Valid)
           IN  lkAll = [i \in 1..Len(valid) |-> recordToResult(valid[i])]

\* two different candidates were extracted and the ranking selected the
\* second; the list is in response order
C18_Witness ==
    /\ LkStage1Done /\ ~lkResp1.err
    /\ Len(LkRecords1) = 2
    /\ Len(lkAll) = 2
    /\ lkAll[1] # lkAll[2]
    /\ lkAll[1].ABN = TrimSpace(LkRecords1[1].idValue)
    /\ lkAll[2].ABN = TrimSpace(LkRecords1[2].idValue)
    /\ lkBest = lkAll[2]

-----------------------------------------------------------------------------
(* Properties of the brand-enrichment loop (enrich).                       *)

\* the statement the loop sends at position k of a faultless run over rows
C19_Expected(k) ==
    [op |-> IF k % 2 = 1 THEN "upsert" ELSE "mark", id |-> bfRows[(k + 1) \div 2].ID]

\* C19: for each pending transaction, in the order of the rows, the upsert
\* into enriched_merchants is sent before the raw row is marked processed,
\* and the row is marked only after its upsert succeeded; when an upsert or a
\* mark fails enrich has returned that error and has sent no statement for
\* any later transaction.
C19_UpsertThenMarkStopOnError ==
    /\ Len(bfLog) <= 2 * Len(bfRows)
    /\ \A k \in DOMAIN bfLog :
          /\ bfLog[k].op = C19_Expected(k).op
          /\ bfLog[k].id = C19_Expected(k).id
          /\ (k < Len(bfLog) => bfLog[k].err = NilErr)
    /\ \A k \in DOMAIN bfLog :
          bfLog[k].err # NilErr => (bfPc = "returned" /\ bfErr = bfLog[k].err)
    /\ \A i \in DOMAIN bfRows :
          bfRows[i].ID \in bfProcessed
              => /\ 2 * i <= Len(bfLog)
                 /\ bfLog[2 * i - 1].err = NilErr /\ bfLog[2 * i].err = NilErr
                 /\ bfRows[i].Description \in DOMAIN bfEnriched

\* enrich has returned the error of the second transaction's upsert: the
\* first transaction is upserted and marked, the second is not marked
C19_Witness ==
    /\ bfPc = "returned"
    /\ bfErr # NilErr
    /\ Len(bfRows) = 2
    /\ Len(bfLog) = 3
    /\ bfLog[3].op = "upsert" /\ bfLog[3].err # NilErr
    /\ bfRows[1].ID \in bfProcessed
    /\ bfRows[2].ID \notin bfProcessed

-----------------------------------------------------------------------------
(* Properties of the three gates of the ranking.                           *)

\* the results of the list that one scoredResults slice holds
RkScoredResults(scored) == {scored[k].result : k \in DOMAIN scored}

\* the legal name, lower-cased, contains a keyword of the allow-list
C21_IsEntity(r) ==
    \E k \in DOMAIN companyKeywords : Contains(ToLower(r.LegalName), companyKeywords[k])

\* C21: entity-type gate: a candidate whose lower-cased legal name contains
\* none of the allow-list keywords is never scored and never returned,
\* whatever its match score or its overlap with the name.
C21_EntityGate ==
    /\ \A scored \in rkScored : \A r \in RkScoredResults(scored) : C21_IsEntity(r)
    /\ \A out \in rkOut : out # ZeroResult => C21_IsEntity(out)

\* a list holds a non-company candidate that shares a word with the name and
\* has the highest match score; a call left it unscored and returned another
C21_Witness ==
    /\ rkPc = "called"
    /\ \E i \in DOMAIN rkResults :
          /\ ~C21_IsEntity(rkResults[i])
          /\ RkCommon(rkResults[i]) # {}
          /\ rkResults[i].Score = Score99
          /\ \A scored \in rkScored : rkResults[i] \notin RkScoredResults(scored)
          /\ \E out \in rkOut : out # ZeroResult /\ out # rkResults[i]

\* C22: lexical-overlap gate: the ranker never returns (or scores) a candidate
\* whose lower-cased word set has an empty intersection with the lower-cased
\* word set of the name.
C22_OverlapGate ==
    /\ \A out \in rkOut : out # ZeroResult => RkCommon(out) # {}
    /\ \A scored \in rkScored : \A r \in RkScoredResults(scored) : RkCommon(r) # {}

\* a list holds a company that shares no word with the name; a call returned
\* another candidate
C22_Witness ==
    /\ rkPc = "called"
    /\ \E i \in DOMAIN rkResults :
          /\ C21_IsEntity(rkResults[i])
          /\ RkCommon(rkResults[i]) = {}
          /\ \E out \in rkOut : out # ZeroResult /\ out # rkResults[i]

\* the legal name, lower-cased, contains a keyword of the deny-list
C23_HasNoise(r) ==
    \E k \in DOMAIN unrelatedKeywords : Contains(ToLower(r.LegalName), unrelatedKeywords[k])

\* C23: noise gate: a candidate that passed the first two gates is dropped
\* exactly when its lower-cased legal name contains a deny-list keyword and
\* it shares fewer than two distinct words with the name.
C23_NoiseGate ==
    \A scored \in rkScored :
        \A i \in DOMAIN rkResults :
            (C21_IsEntity(rkResults[i]) /\ RkCommon(rkResults[i]) # {})
                => (rkResults[i] \notin RkScoredResults(scored)
                        <=> (C23_HasNoise(rkResults[i])
                                /\ Cardinality(RkCommon(rkResults[i])) < 2))

\* one call dropped a company with a deny-list keyword and one shared word,
\* and kept one without a deny-list keyword
C23_Witness ==
    /\ rkPc = "called"
    /\ \E scored \in rkScored :
          \E i, j \in DOMAIN rkResults :
             /\ C21_IsEntity(rkResults[i]) /\ C23_HasNoise(rkResults[i])
             /\ Cardinality(RkCommon(rkResults[i])) = 1
             /\ rkResults[i] \notin RkScoredResults(scored)
             /\ ~C23_HasNoise(rkResults[j])
             /\ rkResults[j] \in RkScoredResults(scored)

-----------------------------------------------------------------------------
(* Properties of the fields of an extracted candidate.                     *)

\* the first non-empty of three strings, empty when all three are empty
FirstNonEmpty(a, b, c) == IF a # <<>> THEN a ELSE IF b # <<>> THEN b ELSE c

\* C24: a candidate's legal name is the first non-empty value, after
\* trimming, among the record's business name, main name and trading name, in
\* that order; it is empty only when all three are empty.
C24_LegalNamePriority ==
    exPc = "decoded" =>
        LET valid == SelectSeq(ExRecordsOfBody, C5_Valid)
        IN  /\ Len(exOut) = Len(valid)
            /\ \A i \in DOMAIN exOut :
                  /\ exOut[i].LegalName =
                        FirstNonEmpty(TrimSpace(valid[i].bnName), TrimSpace(valid[i].mnName),
                                      TrimSpace(valid[i].mtName))
                  /\ (exOut[i].LegalName = <<>>
                        => /\ TrimSpace(valid[i].bnName) = <<>>
                           /\ TrimSpace(valid[i].mnName) = <<>>
                           /\ TrimSpace(valid[i].mtName) = <<>>)

\* a record with all three names gave its business name, and a record with
\* no business name but a main and a trading name gave its main name
C24_Witness ==
    /\ exPc = "decoded"
    /\ Len(exOut) = 2 /\ Len(ExRecordsOfBody) = 2
    /\ ExRecordsOfBody[1].bnName # <<>> /\ ExRecordsOfBody[1].mnName # <<>>
    /\ ExRecordsOfBody[1].mtName # <<>>
    /\ exOut[1].LegalName = ExRecordsOfBody[1].bnName
    /\ ExRecordsOfBody[2].bnName = <<>> /\ ExRecordsOfBody[2].mtName # <<>>
    /\ exOut[2].LegalName = ExRecordsOfBody[2].mnName
    /\ exOut[2].LegalName # <<>>

\* C25: a candidate's match score is the record's business-name score when
\* that is non-empty after trimming, otherwise its trading-name score; it is
\* empty only when both are; which name field gave the legal name plays no
\* part.
C25_ScorePriority ==
    exPc = "decoded" =>
        LET valid == SelectSeq(ExRecordsOfBody, C5_Valid)
        IN  /\ Len(exOut) = Len(valid)
            /\ \A i \in DOMAIN exOut :
                  /\ exOut[i].Score =
                        (IF TrimSpace(valid[i].bnScore) # <<>>
                         THEN TrimSpace(valid[i].bnScore)
                         ELSE TrimSpace(valid[i].mtScore))
                  /\ (exOut[i].Score = <<>>
                        => /\ TrimSpace(valid[i].bnScore) = <<>>
                           /\ TrimSpace(valid[i].mtScore) = <<>>)

\* the legal name came from the trading name while the score is the
\* business-name score; and a main-name candidate carries the trading score
C25_Witness ==
    /\ exPc = "decoded"
    /\ Len(exOut) = 2 /\ Len(ExRecordsOfBody) = 2
    /\ ExRecordsOfBody[1].bnName = <<>> /\ ExRecordsOfBody[1].mnName = <<>>
    /\ exOut[1].LegalName = TrimSpace(ExRecordsOfBody[1].mtName)
    /\ exOut[1].LegalName # <<>>
    /\ exOut[1].Score = Score95
    /\ ExRecordsOfBody[2].bnScore = <<>>
    /\ exOut[2].LegalName = ExRecordsOfBody[2].mnName /\ exOut[2].LegalName # <<>>
    /\ exOut[2].Score = Score80

-----------------------------------------------------------------------------
(* Properties of Lookup as a whole.                                        *)

\* C26: one Lookup call sends at most two registry queries and never two at
\* a time: the first carries the name; the second is sent only after the
\* first has returned and selected a candidate with a non-empty legal name,
\* and carries that legal name; when stage 1 selects no candidate there is no
\* second query.
C26_AtMostTwoSequentialQueries ==
    /\ Len(lkQueries) <= 2
    /\ (lkPc # "idle" => (Len(lkQueries) >= 1 /\ lkQueries[1] = lkName))
    /\ (lkPc = "stage1" => (Len(lkQueries) = 1 /\ lkResp1 = NoResp))
    /\ (lkPc = "stage2" => (Len(lkQueries) = 2 /\ lkResp1 # NoResp /\ lkResp2 = NoResp))
    /\ (Len(lkQueries) = 2
          => /\ ~lkResp1.err
             /\ lkBest.ABN # <<>>
             /\ lkBest.LegalName # <<>>
             /\ lkQueries[2] = lkBest.LegalName)
    /\ ((LkStage1Done /\ lkBest.ABN = <<>>) => (lkPc = "done" /\ Len(lkQueries) = 1))

\* the second query is in flight: it carries the selected candidate's legal
\* name, which is not the name Lookup was given
C26_Witness ==
    /\ lkPc = "stage2"
    /\ lkQueries = <<lkName, lkBest.LegalName>>
    /\ lkBest.LegalName # lkName
    /\ lkBest.ABN = Abn1

\* C27: whenever Lookup returns a non-empty identifier it is the identifier
\* of the candidate selected in stage 1; stage 2 may change the jurisdiction,
\* the legal name and the score, never the identifier.
C27_IdentifierFromStage1 ==
    (lkPc = "done" /\ lkRet[1] # <<>>) => lkRet[1] = lkBest.ABN

\* stage 2 replaced the jurisdiction, the legal name and the score, and the
\* identifier returned is the one selected in stage 1
C27_Witness ==
    /\ LkStage2Done
    /\ lkRet[1] = lkBest.ABN /\ lkRet[1] # <<>>
    /\ lkRet[2] # lkBest.State
    /\ lkRet[3] # lkBest.LegalName
    /\ lkRet[4] # lkBest.Score

\* C28: Lookup's result is all-or-nothing: either the four returned fields
\* are all empty, or the identifier is a string of 11 digits.
C28_AllOrNothing ==
    lkPc = "done" =>
        \/ lkRet = ZeroRet
        \/ /\ Len(lkRet[1]) = 11
           /\ \A i \in 1..11 : lkRet[1][i] \in Digits

\* Lookup returned "no match" for a response whose only record is an Active
\* company sharing the name but carrying a ten-digit identifier
C28_Witness ==
    /\ lkPc = "done"
    /\ lkRet = ZeroRet
    /\ ~lkResp1.err
    /\ Len(LkRecords1) = 1
    /\ Len(TrimSpace(LkRecords1[1].idValue)) = 10
    /\ TrimSpace(LkRecords1[1].idStatus) = StrActive
    /\ LkSurvives(LkRecords1[1])

-----------------------------------------------------------------------------
(* Properties of the results table gate and of failed resolutions.         *)

\* C29: a request for a name that is not in the preloaded results table gets
\* the not-found response, starts no registry or search call and leaves the
\* cache unchanged; hence every key of the cache is a key of the results
\* table in every reachable state.
C29_UnknownNameNotFound ==
    /\ [](/\ DOMAIN svCache \subseteq DOMAIN SvResults
          /\ \A c \in Callers :
                (svPc[c] # "idle" /\ svName[c] \notin DOMAIN SvResults)
                    => (svPc[c] = "done" /\ svResp[c] = NotFound))
    /\ [][\A c \in Callers :
             (svPc[c] = "idle" /\ svPc'[c] # "idle" /\ svName'[c] \notin DOMAIN SvResults)
                 => /\ svCache' = svCache
                    /\ svAbrCalls' = svAbrCalls
                    /\ svGoogleCalls' = svGoogleCalls]_vars

\* a request for "Apple" has been answered not-found while the entry of
\* "apple" is cached
C29_Witness ==
    \E c \in Callers :
        /\ svPc[c] = "done"
        /\ svName[c] = WApple
        /\ svResp[c] = NotFound
        /\ DOMAIN svCache = {KeyApple}

\* C30: when the registry query made on a cache miss fails, the miss path
\* still stores an entry for the key, with zero registry candidates, and every
\* later lookup of the key returns this stored entry without the registry
\* being queried again: the entry is never replaced and every read of the key
\* is answered with it.
C30_FailedResolutionCached ==
    [][\A k \in DOMAIN svCache :
          svCache[k].ABNCount = 0
              => /\ k \in DOMAIN svCache'
                 /\ svCache'[k] = svCache[k]
                 /\ \A c \in Callers :
                       (svName[c] = k /\ svPc[c] = "read" /\ svPc'[c] # "read")
                           => (svPc'[c] = "done" /\ svResp'[c] = Ok200(svCache[k], TRUE))]_vars
=============================================================================
